---------------------------- MODULE Spec2Model ----------------------------
(***************************************************************************)
(* Lequel? language identification based on trigrams (src/Lequel.cpp).     *)
(*                                                                         *)
(* The four functions of the file are modelled as operators and each is    *)
(* applied by an action of a small caller state machine:                   *)
(*   buildTrigramProfile, normalizeTrigramProfile, getCosineSimilarity,    *)
(*   identifyLanguage.                                                     *)
(*                                                                         *)
(* Strings (std::string) are sequences of byte values.  A TrigramProfile   *)
(* (std::map<std::string,float>) is a function from its key set to         *)
(* floats.                                                                 *)
(***************************************************************************)
EXTENDS Integers, Sequences, FiniteSets, TLC

VARIABLES
    pc,              \* "call" before the modelled call, "returned"/"thrown" after
    lenientTail,     \* build: does from_bytes drop an incomplete trailing sequence
    text,            \* Text argument (sequence of lines, each a byte sequence)
    languages,       \* LanguageProfiles argument (sequence of LanguageProfile)
    trigramProfile,  \* profile returned by build / mutated in place by normalize
    original,        \* the profile as it was when normalize was called
    profA,           \* first profile held by the caller of getCosineSimilarity
    profB,           \* second profile held by the caller of getCosineSimilarity
    normA,           \* has profA been passed through normalizeTrigramProfile
    normB,           \* has profB been passed through normalizeTrigramProfile
    simAA,           \* <<getCosineSimilarity(profA, profA)>>, or <<>> before the call
    simAB,           \* <<getCosineSimilarity(profA, profB)>>, or <<>> before the call
    simBA,           \* <<getCosineSimilarity(profB, profA)>>, or <<>> before the call
    result           \* value returned by identifyLanguage, or None

vars == <<pc, lenientTail, text, languages, trigramProfile, original,
          profA, profB, normA, normB, simAA, simAB, simBA, result>>

None == "none"

(***************************************************************************)
(* Bounds of the model.                                                    *)
(***************************************************************************)
MaxLines == 2        \* lines of a text given to buildTrigramProfile
MaxLineLen == 4      \* bytes of a line
MantissaBits == 6    \* bits of a float's mantissa in the model

\* '\r'
CR == 13
\* Byte values the lines are drawn from: 'a', '\r', and the two bytes of
\* U+00E9 (0xC3 0xA9), which also give stray and truncated sequences.
Bytes == {97, CR, 195, 169}

(***************************************************************************)
(* float.  A value is NaN, +infinity, or a finite m * 2^e >= 0 with m = 0  *)
(* (then e = 0) or 2^(MantissaBits-1) <= m < 2^MantissaBits, so that equal *)
(* values are equal records.  Every operation rounds its exact result to   *)
(* the nearest representable value, ties to even, as IEEE 754 does.  The   *)
(* program's floats are counts, sums, roots, quotients and products of     *)
(* those: none is negative.  The exponent is not bounded (the values met   *)
(* are far from overflow and underflow); the mantissa has MantissaBits     *)
(* bits where the program's float has 24.                                  *)
(***************************************************************************)
RECURSIVE Pow2(_)
Pow2(k) == IF k <= 0 THEN 1 ELSE 2 * Pow2(k - 1)

MantMax == Pow2(MantissaBits)
MantMin == Pow2(MantissaBits - 1)

Fin(m, e) == [k |-> "fin", m |-> m, e |-> e]
FZero == Fin(0, 0)
NaN == [k |-> "nan", m |-> 0, e |-> 0]
Inf == [k |-> "inf", m |-> 0, e |-> 0]
IsFinite(x) == x.k = "fin"

\* (N / D) * 2^e rounded to a float, for N >= 0 and D > 0.
RECURSIVE RoundQ(_, _, _)
RoundQ(N, D, e) ==
    IF N = 0 THEN FZero
    ELSE IF N >= D * MantMax THEN RoundQ(N, 2 * D, e + 1)
    ELSE IF N < D * MantMin THEN RoundQ(2 * N, D, e - 1)
    ELSE LET q == N \div D
             r == N % D
             m == IF 2 * r > D \/ (2 * r = D /\ q % 2 = 1) THEN q + 1 ELSE q
         IN IF m = MantMax THEN Fin(MantMin, e + 1) ELSE Fin(m, e)

\* The float of an int literal or count.
FromInt(c) == RoundQ(c, 1, 0)
FOne == FromInt(1)

Min(a, b) == IF a < b THEN a ELSE b

\* x + y
FAdd(x, y) ==
    IF x.k = "nan" \/ y.k = "nan" THEN NaN
    ELSE IF x.k = "inf" \/ y.k = "inf" THEN Inf
    ELSE IF x.m = 0 THEN y
    ELSE IF y.m = 0 THEN x
    ELSE LET e == Min(x.e, y.e) IN
         RoundQ(x.m * Pow2(x.e - e) + y.m * Pow2(y.e - e), 1, e)

\* x * y
FMul(x, y) ==
    IF x.k = "nan" \/ y.k = "nan" THEN NaN
    ELSE IF x.k = "inf" \/ y.k = "inf"
         THEN (IF (x.k = "fin" /\ x.m = 0) \/ (y.k = "fin" /\ y.m = 0) THEN NaN ELSE Inf)
    ELSE RoundQ(x.m * y.m, 1, x.e + y.e)

\* x / y
FDiv(x, y) ==
    IF x.k = "nan" \/ y.k = "nan" THEN NaN
    ELSE IF x.k = "inf" THEN (IF y.k = "inf" THEN NaN ELSE Inf)
    ELSE IF y.k = "inf" THEN FZero
    ELSE IF y.m = 0 THEN (IF x.m = 0 THEN NaN ELSE Inf)
    ELSE RoundQ(x.m, y.m, x.e - y.e)

\* floor of the square root of M, for M < 2^(2 * MantissaBits)
ISqrt(M) == CHOOSE s \in 0..MantMax : s * s <= M /\ M < (s + 1) * (s + 1)

\* sqrt(M * 2^e) for e even: M is scaled by powers of 4 until its root has
\* MantissaBits bits; the root is then rounded to nearest (never a tie).
RECURSIVE SqrtScaled(_, _)
SqrtScaled(M, e) ==
    IF M < MantMin * MantMin THEN SqrtScaled(4 * M, e - 2)
    ELSE LET s == ISqrt(M)
             m == IF M > s * s + s THEN s + 1 ELSE s
         IN IF m = MantMax THEN Fin(MantMin, (e \div 2) + 1) ELSE Fin(m, e \div 2)

\* sqrt(x)
FSqrt(x) ==
    IF x.k # "fin" THEN x
    ELSE IF x.m = 0 THEN FZero
    ELSE IF x.e % 2 = 0 THEN SqrtScaled(x.m, x.e)
    ELSE SqrtScaled(2 * x.m, x.e - 1)

\* x > y (false when either is NaN)
FGreater(x, y) ==
    IF x.k = "nan" \/ y.k = "nan" THEN FALSE
    ELSE IF y.k = "inf" THEN FALSE
    ELSE IF x.k = "inf" THEN TRUE
    ELSE LET e == Min(x.e, y.e) IN
         x.m * Pow2(x.e - e) > y.m * Pow2(y.e - e)

\* x == y (NaN equals nothing); finite values are canonical records
FEq(x, y) == x.k # "nan" /\ y.k # "nan" /\ x = y

(***************************************************************************)
(* std::map helpers.                                                       *)
(***************************************************************************)
EmptyProfile == [k \in {} |-> FZero]

\* Keys in std::map iteration order (std::less<std::string>: bytewise
\* lexicographic); the model only needs one fixed order per key set.
RECURSIVE SeqLess(_, _)
SeqLess(s, t) ==
    IF Len(s) = 0 THEN Len(t) > 0
    ELSE IF Len(t) = 0 THEN FALSE
    ELSE IF s[1] # t[1] THEN s[1] < t[1]
    ELSE SeqLess(Tail(s), Tail(t))

MinKey(S) == CHOOSE k \in S : \A j \in S \ {k} : SeqLess(k, j)

RECURSIVE KeyOrder(_)
KeyOrder(S) ==
    IF S = {} THEN <<>>
    ELSE LET k == MinKey(S) IN <<k>> \o KeyOrder(S \ {k})

(***************************************************************************)
(* buildTrigramProfile                                                     *)
(***************************************************************************)
\* while in place of if: every trailing '\r' is removed
RECURSIVE StripEveryCR(_)
StripEveryCR(line) ==
    IF Len(line) > 0 /\ line[Len(line)] = CR
    THEN StripEveryCR(SubSeq(line, 1, Len(line) - 1))
    ELSE line

\* if ((line.length() > 0) && (line[line.length() - 1] == '\r'))
\*     line = line.substr(0, line.length()-1);
StripCR(line) ==
    IF Len(line) > 0 /\ line[Len(line)] = CR
    THEN SubSeq(line, 1, Len(line) - 1)
    ELSE line

\* converter.from_bytes with codecvt_utf8<wchar_t>: UTF-8 to code points.
\* One- and two-byte sequences are modelled (the byte alphabet holds no
\* longer lead).  A malformed sequence throws std::range_error; an
\* incomplete sequence at the very end throws too, except where the
\* library returns what it converted so far (lenient).
RECURSIVE FromBytes(_, _)
FromBytes(b, lenient) ==
    IF Len(b) = 0 THEN [ok |-> TRUE, w |-> <<>>]
    ELSE IF b[1] < 128 THEN
        LET rest == FromBytes(Tail(b), lenient) IN
        [ok |-> rest.ok, w |-> <<b[1]>> \o rest.w]
    ELSE IF b[1] >= 194 /\ b[1] <= 223 THEN
        IF Len(b) = 1 THEN [ok |-> lenient, w |-> <<>>]
        ELSE IF b[2] >= 128 /\ b[2] <= 191 THEN
            LET rest == FromBytes(SubSeq(b, 3, Len(b)), lenient) IN
            [ok |-> rest.ok, w |-> <<(b[1] - 192) * 64 + (b[2] - 128)>> \o rest.w]
        ELSE [ok |-> FALSE, w |-> <<>>]
    ELSE [ok |-> FALSE, w |-> <<>>]

\* converter.to_bytes: code points to UTF-8 (below U+0800).
RECURSIVE ToBytes(_)
ToBytes(w) ==
    IF Len(w) = 0 THEN <<>>
    ELSE (IF w[1] < 128 THEN <<w[1]>>
          ELSE <<192 + (w[1] \div 64), 128 + (w[1] % 64)>>) \o ToBytes(Tail(w))

\* unicodeString.substr(i, 3), i counted from 0
Substr3(w, i) == SubSeq(w, i + 1, Min(i + 3, Len(w)))

\* find / it->second++ / insert(pair(trigram, 1))
Increment(profile, trigram) ==
    IF trigram \in DOMAIN profile
    THEN [profile EXCEPT ![trigram] = FAdd(@, FOne)]
    ELSE [k \in DOMAIN profile \cup {trigram} |->
            IF k = trigram THEN FOne ELSE profile[k]]

\* the inner loop: for (auto letter : unicodeString), i = 0, 1, ...
RECURSIVE Windows(_, _, _)
Windows(profile, w, i) ==
    IF i >= Len(w) THEN profile
    ELSE Windows(Increment(profile, ToBytes(Substr3(w, i))), w, i + 1)

\* The outer loop body with the windows of a line counted into a fresh
\* profile in place of the one accumulated so far.
BuildLineFreshProfile(acc, line, lenient) ==
    LET dec == FromBytes(StripCR(line), lenient) IN
    IF acc.thrown THEN acc
    ELSE IF ~dec.ok THEN [thrown |-> TRUE, profile |-> EmptyProfile]
    ELSE IF Len(dec.w) < 3 THEN acc
    ELSE [acc EXCEPT !.profile = Windows(EmptyProfile, dec.w, 0)]

\* One pass of the outer loop body; acc = [thrown, profile].  A throw of
\* from_bytes leaves the function: nothing is returned.
BuildLine(acc, line, lenient) ==
    LET dec == FromBytes(StripCR(line), lenient) IN
    IF acc.thrown THEN acc
    ELSE IF ~dec.ok THEN [thrown |-> TRUE, profile |-> EmptyProfile]
    ELSE IF Len(dec.w) < 3 THEN acc
    ELSE [acc EXCEPT !.profile = Windows(acc.profile, dec.w, 0)]

\* for (auto line : text)
RECURSIVE BuildFrom(_, _, _)
BuildFrom(acc, lines, lenient) ==
    IF Len(lines) = 0 THEN acc
    ELSE BuildFrom(BuildLine(acc, lines[1], lenient), Tail(lines), lenient)

\* TrigramProfile buildTrigramProfile(const Text &text)
BuildTrigramProfile(t, lenient) ==
    BuildFrom([thrown |-> FALSE, profile |-> EmptyProfile], t, lenient)

(***************************************************************************)
(* normalizeTrigramProfile                                                 *)
(***************************************************************************)
\* tot += el.second * el.second (the L2 norm) in place of tot += el.second
AddendSquared(el) == FMul(el, el)

\* what tot += el.second adds for one element
Addend(el) == el

\* float tot = 0; for (auto &el : trigramProfile) tot += el.second;
RECURSIVE SumOver(_, _, _)
SumOver(profile, keys, tot) ==
    IF Len(keys) = 0 THEN tot
    ELSE SumOver(profile, Tail(keys), FAdd(tot, Addend(profile[keys[1]])))

\* tot = sqrt(tot); for (auto &el : trigramProfile) el.second /= tot;
\* void normalizeTrigramProfile(TrigramProfile &trigramProfile)
NormalizeTrigramProfile(profile) ==
    LET tot == FSqrt(SumOver(profile, KeyOrder(DOMAIN profile), FZero)) IN
    [k \in DOMAIN profile |-> FDiv(profile[k], tot)]

(***************************************************************************)
(* getCosineSimilarity                                                     *)
(***************************************************************************)
\* p1.second * p1.second in place of p1.second * languageProfile[p1.first]
TermOwnWeight(p1second, weight) == FMul(p1second, p1second)

\* p1.second * languageProfile[p1.first]
Term(p1second, weight) == FMul(p1second, weight)

\* for (auto &p1 : textProfile)
\*     if (languageProfile.find(p1.first) != languageProfile.end())
\*         simCos += p1.second * languageProfile[p1.first];
RECURSIVE SimOver(_, _, _, _)
SimOver(textProfile, languageProfile, keys, simCos) ==
    IF Len(keys) = 0 THEN simCos
    ELSE SimOver(textProfile, languageProfile, Tail(keys),
            IF keys[1] \in DOMAIN languageProfile
            THEN FAdd(simCos, Term(textProfile[keys[1]], languageProfile[keys[1]]))
            ELSE simCos)

\* float getCosineSimilarity(TrigramProfile &textProfile, TrigramProfile &languageProfile)
\* float simCos = 0; the loop; return simCos;
GetCosineSimilarity(textProfile, languageProfile) ==
    SimOver(textProfile, languageProfile, KeyOrder(DOMAIN textProfile), FZero)

(***************************************************************************)
(* identifyLanguage                                                        *)
(***************************************************************************)
\* string langCode = "Err";
Err == "Err"
\* return "No se encontro lenguaje similar";  (the source spells it with
\* U+00F3; only equality of strings matters here)
NoMatch == "No se encontro lenguaje similar"

\* float maxSim = 1 in place of float maxSim = 0
InitialMaxSimOne == FOne

\* float maxSim = 0;
InitialMaxSim == FZero

\* if (actSim >= maxSim) in place of if (actSim > maxSim)
ReplacesBestAlsoWhenEqual(actSim, maxSim) ==
    actSim.k # "nan" /\ maxSim.k # "nan" /\ ~FGreater(maxSim, actSim)

\* if (actSim > maxSim)
ReplacesBest(actSim, maxSim) == FGreater(actSim, maxSim)

\* for (auto &language : languages) { actSim = ...; if (actSim > maxSim) {...} }
RECURSIVE RankFrom(_, _, _)
RankFrom(textProfile, langs, best) ==
    IF Len(langs) = 0 THEN best
    ELSE LET actSim == GetCosineSimilarity(textProfile, langs[1].trigramProfile) IN
         RankFrom(textProfile, Tail(langs),
            IF ReplacesBest(actSim, best.maxSim)
            THEN [maxSim |-> actSim, langCode |-> langs[1].languageCode]
            ELSE best)

\* The body of identifyLanguage after the text profile is built:
\* float maxSim = 0; string langCode = "Err"; the loop; the final test.
Rank(textProfile, langs) ==
    LET best == RankFrom(textProfile, langs,
                         [maxSim |-> InitialMaxSim, langCode |-> Err]) IN
    IF best.langCode = Err THEN NoMatch ELSE best.langCode

\* string identifyLanguage(const Text &text, LanguageProfiles &languages)
\* (an exception of buildTrigramProfile propagates)
IdentifyLanguage(t, langs, lenient) ==
    LET built == BuildTrigramProfile(t, lenient) IN
    IF built.thrown THEN [thrown |-> TRUE, value |-> None]
    ELSE [thrown |-> FALSE, value |-> Rank(built.profile, langs)]

(***************************************************************************)
(* Inputs.                                                                 *)
(***************************************************************************)
MaxCount == 3        \* largest raw count of a profile handed to normalize
MaxLangs == 2        \* languages of a LanguageProfiles collection
MaxLangCount == 2    \* largest raw count behind a language profile

SeqsUpTo(S, n) == UNION {[1..k -> S] : k \in 0..n}

\* The sequences made of one element of Free followed by up to n - 1
\* elements of Fixed, and the empty sequence.
OneFreeThen(Free, Fixed, n) ==
    {<<>>} \cup {<<x>> \o others : x \in Free, others \in SeqsUpTo(Fixed, n - 1)}

\* Texts given to buildTrigramProfile: one line of any bytes, then lines
\* out of "aaa", "aéa\r", "aa", "aaa" with a lead byte cut short, and a
\* stray continuation byte.
Lines == SeqsUpTo(Bytes, MaxLineLen)
OtherLines ==
    {<<97, 97, 97>>, <<97, 195, 169, 97, CR>>, <<97, 97>>, <<97, 97, 97, 195>>, <<169>>}
Texts == OneFreeThen(Lines, OtherLines, MaxLines)

\* Trigram keys of the profiles handed to normalize and getCosineSimilarity:
\* "aaa", "aa", "a" (what the line "aaa" produces).
ProfileKeys == {<<97, 97, 97>>, <<97, 97>>, <<97>>}

\* Profiles of raw counts over sub-sets of keys.
CountProfiles(keys, counts) ==
    UNION {[S -> {FromInt(c) : c \in counts}] : S \in SUBSET keys}

\* Texts given to identifyLanguage: any of <<>>, "aa", "aaaa", "aéa", then
\* any of <<>>, "aaa", "aéa", "éaa", and a line with a stray continuation
\* byte.
IdentTexts ==
    {h \o t : h \in {<<>>, <<<<97, 97>>>>, <<<<97, 97, 97, 97>>>>,
                      <<<<97, 195, 169, 97>>>>},
              t \in {<<>>, <<<<97, 97, 97>>>>, <<<<97, 195, 169, 97>>>>,
                     <<<<195, 169, 97, 97>>>>}}
      \cup {<<<<169, 97, 97>>>>}

\* Language profiles are supplied already normalized: raw counts passed
\* through normalizeTrigramProfile.  Keys "aaa", "éa", "aa".
LanguageKeys == {<<97, 97, 97>>, <<195, 169, 97>>, <<97, 97>>}
LanguageCodes == {"eng", "spa", Err}
Language(code, counts) ==
    [languageCode |-> code, trigramProfile |-> NormalizeTrigramProfile(counts)]
LanguageProfileSet ==
    {Language(code, counts) :
        code \in LanguageCodes,
        counts \in CountProfiles(LanguageKeys, 1..MaxLangCount)}

\* A collection holds one language of any code and counts, then languages
\* out of five.
OtherLanguages ==
    {Language("eng", (<<97, 97, 97>> :> FromInt(2) @@ <<195, 169, 97>> :> FromInt(2)
                        @@ <<97, 97>> :> FromInt(1))),
     Language("spa", (<<97, 97, 97>> :> FromInt(2) @@ <<195, 169, 97>> :> FromInt(1)
                        @@ <<97, 97>> :> FromInt(2))),
     Language(Err, (<<97, 97, 97>> :> FromInt(1))),
     Language("spa", (<<195, 169, 97>> :> FromInt(1))),
     Language("eng", EmptyProfile)}
LanguageProfilesSet == OneFreeThen(LanguageProfileSet, OtherLanguages, MaxLangs)

(***************************************************************************)
(* Caller of buildTrigramProfile.                                          *)
(***************************************************************************)
InitBuild ==
    /\ pc = "call"
    /\ lenientTail \in BOOLEAN
    /\ text \in Texts
    /\ languages = <<>>
    /\ trigramProfile = EmptyProfile
    /\ original = EmptyProfile
    /\ profA = EmptyProfile /\ profB = EmptyProfile
    /\ normA = FALSE /\ normB = FALSE
    /\ simAA = <<>> /\ simAB = <<>> /\ simBA = <<>>
    /\ result = None

CallBuild ==
    /\ pc = "call"
    /\ LET built == BuildTrigramProfile(text, lenientTail) IN
       /\ pc' = IF built.thrown THEN "thrown" ELSE "returned"
       /\ trigramProfile' = built.profile
    /\ UNCHANGED <<lenientTail, text, languages, original, profA, profB,
                   normA, normB, simAA, simAB, simBA, result>>

NextBuild == CallBuild

SpecBuild == InitBuild /\ [][NextBuild]_vars

(***************************************************************************)
(* Caller of normalizeTrigramProfile.                                      *)
(***************************************************************************)
InitNorm ==
    /\ pc = "call"
    /\ lenientTail = FALSE
    /\ text = <<>>
    /\ languages = <<>>
    /\ trigramProfile \in CountProfiles(ProfileKeys, 0..MaxCount)
    /\ original = trigramProfile
    /\ profA = EmptyProfile /\ profB = EmptyProfile
    /\ normA = FALSE /\ normB = FALSE
    /\ simAA = <<>> /\ simAB = <<>> /\ simBA = <<>>
    /\ result = None

\* The function is void and has no throw: it always returns normally.
CallNormalize ==
    /\ pc = "call"
    /\ trigramProfile' = NormalizeTrigramProfile(trigramProfile)
    /\ pc' = "returned"
    /\ UNCHANGED <<lenientTail, text, languages, original, profA, profB,
                   normA, normB, simAA, simAB, simBA, result>>

NextNorm == CallNormalize

SpecNorm == InitNorm /\ [][NextNorm]_vars

(***************************************************************************)
(* Caller of getCosineSimilarity: two profiles of positive counts, each    *)
(* normalized or not, then the three scores.                               *)
(***************************************************************************)
InitSim ==
    /\ pc = "call"
    /\ lenientTail = FALSE
    /\ text = <<>>
    /\ languages = <<>>
    /\ trigramProfile = EmptyProfile
    /\ original = EmptyProfile
    /\ profA \in CountProfiles(ProfileKeys, 1..MaxCount)
    /\ profB \in CountProfiles(ProfileKeys, 1..MaxCount)
    /\ normA = FALSE /\ normB = FALSE
    /\ simAA = <<>> /\ simAB = <<>> /\ simBA = <<>>
    /\ result = None

NoScoreYet == simAA = <<>> /\ simAB = <<>> /\ simBA = <<>>

NormalizeA ==
    /\ pc = "call" /\ ~normA /\ NoScoreYet
    /\ profA' = NormalizeTrigramProfile(profA)
    /\ normA' = TRUE
    /\ UNCHANGED <<pc, lenientTail, text, languages, trigramProfile, original,
                   profB, normB, simAA, simAB, simBA, result>>

NormalizeB ==
    /\ pc = "call" /\ ~normB /\ NoScoreYet
    /\ profB' = NormalizeTrigramProfile(profB)
    /\ normB' = TRUE
    /\ UNCHANGED <<pc, lenientTail, text, languages, trigramProfile, original,
                   profA, normA, simAA, simAB, simBA, result>>

ScoreAA ==
    /\ pc = "call" /\ simAA = <<>>
    /\ simAA' = <<GetCosineSimilarity(profA, profA)>>
    /\ UNCHANGED <<pc, lenientTail, text, languages, trigramProfile, original,
                   profA, profB, normA, normB, simAB, simBA, result>>

ScoreAB ==
    /\ pc = "call" /\ simAB = <<>>
    /\ simAB' = <<GetCosineSimilarity(profA, profB)>>
    /\ UNCHANGED <<pc, lenientTail, text, languages, trigramProfile, original,
                   profA, profB, normA, normB, simAA, simBA, result>>

ScoreBA ==
    /\ pc = "call" /\ simBA = <<>>
    /\ simBA' = <<GetCosineSimilarity(profB, profA)>>
    /\ UNCHANGED <<pc, lenientTail, text, languages, trigramProfile, original,
                   profA, profB, normA, normB, simAA, simAB, result>>

NextSim == NormalizeA \/ NormalizeB \/ ScoreAA \/ ScoreAB \/ ScoreBA

SpecSim == InitSim /\ [][NextSim]_vars

(***************************************************************************)
(* Caller of identifyLanguage.                                             *)
(***************************************************************************)
InitIdent ==
    /\ pc = "call"
    /\ lenientTail = FALSE
    /\ text \in IdentTexts
    /\ languages \in LanguageProfilesSet
    /\ trigramProfile = EmptyProfile
    /\ original = EmptyProfile
    /\ profA = EmptyProfile /\ profB = EmptyProfile
    /\ normA = FALSE /\ normB = FALSE
    /\ simAA = <<>> /\ simAB = <<>> /\ simBA = <<>>
    /\ result = None

CallIdentify ==
    /\ pc = "call"
    /\ LET r == IdentifyLanguage(text, languages, lenientTail) IN
       /\ pc' = IF r.thrown THEN "thrown" ELSE "returned"
       /\ result' = r.value
    /\ UNCHANGED <<lenientTail, text, languages, trigramProfile, original,
                   profA, profB, normA, normB, simAA, simAB, simBA>>

NextIdent == CallIdentify

SpecIdent == InitIdent /\ [][NextIdent]_vars

(***************************************************************************)
(* Reference windowing over code points, written without the decoder and   *)
(* the loops of the code.                                                  *)
(***************************************************************************)
\* Code points of the byte alphabet: 'a', '\r', U+00E9.
CodePoints == {97, CR, 233}
Utf8Of(cp) == IF cp = 233 THEN <<195, 169>> ELSE <<cp>>

RECURSIVE Utf8(_)
Utf8(w) == IF Len(w) = 0 THEN <<>> ELSE Utf8Of(w[1]) \o Utf8(Tail(w))

CodePointSeqs == SeqsUpTo(CodePoints, MaxLineLen)

Encodings == {Utf8(w) : w \in CodePointSeqs}
IsUtf8(line) == line \in Encodings

\* The code points a UTF-8 line encodes: no encoding of a code point is the
\* start of another's, so the first code point is the one whose encoding
\* the line starts with.
StartsWith(line, enc) == Len(line) >= Len(enc) /\ SubSeq(line, 1, Len(enc)) = enc
RECURSIVE Decoded(_)
Decoded(line) ==
    IF Len(line) = 0 THEN <<>>
    ELSE LET cp == CHOOSE c \in CodePoints : StartsWith(line, Utf8Of(c)) IN
         <<cp>> \o Decoded(SubSeq(line, Len(Utf8Of(cp)) + 1, Len(line)))

\* The code points of a line after removing one trailing carriage return.
RefLine(line) ==
    LET w == Decoded(line) IN
    IF Len(w) > 0 /\ w[Len(w)] = CR THEN SubSeq(w, 1, Len(w) - 1) ELSE w

\* The window of length min(3, n - i) starting at index i (from 0).
RefWindow(w, i) == [j \in 1..Min(3, Len(w) - i) |-> w[i + j]]

RefLines(t) == [l \in 1..Len(t) |-> RefLine(t[l])]

\* The (line, index) pairs that contribute a window.
RefPlaces(t) ==
    LET ws == RefLines(t) IN
    {pl \in (1..Len(t)) \X (0..(MaxLineLen - 1)) :
        Len(ws[pl[1]]) >= 3 /\ pl[2] < Len(ws[pl[1]])}

RefProfile(t) ==
    LET ws == RefLines(t)
        places == RefPlaces(t)
        keyAt == [pl \in places |-> Utf8(RefWindow(ws[pl[1]], pl[2]))]
    IN  [key \in {keyAt[pl] : pl \in places} |->
            FromInt(Cardinality({pl \in places : keyAt[pl] = key}))]

TextIsUtf8 == \A l \in 1..Len(text) : IsUtf8(text[l])

\* C6: buildTrigramProfile returns the reference windowing of every UTF-8
\* text: per line, one trailing '\r' removed, nothing for fewer than 3 code
\* points, else one count for the window of length min(3, n-i) at every
\* index i; counts accumulate over the lines, their sum is the number of
\* code points of the lines with n >= 3, and a text of short lines only
\* gives the empty mapping.
C6_BuildIsReferenceWindowing ==
    (pc # "call" /\ TextIsUtf8) =>
        /\ pc = "returned"
        /\ trigramProfile = RefProfile(text)
        /\ SumOver(trigramProfile, KeyOrder(DOMAIN trigramProfile), FZero)
             = FromInt(Cardinality(RefPlaces(text)))
        /\ (\A l \in 1..Len(text) : Len(RefLine(text[l])) < 3)
             => trigramProfile = EmptyProfile

\* C6 witness: a returned profile of a UTF-8 text with a line that ends in
\* '\r', a two-byte code point, a repeated trigram and a short last window.
C6_Witness ==
    /\ pc = "returned" /\ TextIsUtf8
    /\ \E l \in 1..Len(text) : Len(text[l]) = 4 /\ text[l][4] = CR
    /\ \E l \in 1..Len(text) : \E j \in 1..Len(text[l]) : text[l][j] = 195
    /\ \E key \in DOMAIN trigramProfile : trigramProfile[key] = FromInt(2)
    /\ \E key \in DOMAIN trigramProfile : Len(key) = 1

(***************************************************************************)
(* C9                                                                      *)
(***************************************************************************)
Reorderings(t) ==
    {[i \in 1..Len(t) |-> t[p[i]]] : p \in Permutations(1..Len(t))}

SelfSimilarityNormalized(profile) ==
    LET n == NormalizeTrigramProfile(profile) IN GetCosineSimilarity(n, n)

\* C9: for every re-ordering of the lines of the text buildTrigramProfile
\* gives the same outcome (the same keys and counts, or the same throw), and
\* so the normalized profile and its self-similarity are the same too.
C9_LineOrderIrrelevant ==
    pc # "call" =>
        \A t \in Reorderings(text) :
            LET built == BuildTrigramProfile(t, lenientTail) IN
            /\ built.thrown = (pc = "thrown")
            /\ built.profile = trigramProfile
            /\ NormalizeTrigramProfile(built.profile)
                 = NormalizeTrigramProfile(trigramProfile)
            /\ SelfSimilarityNormalized(built.profile)
                 = SelfSimilarityNormalized(trigramProfile)

\* C9 witness: two different lines, both long enough to contribute, sharing
\* a trigram.
C9_Witness ==
    /\ pc = "returned" /\ Len(text) = 2 /\ text[1] # text[2]
    /\ \A l \in 1..2 : BuildTrigramProfile(<<text[l]>>, lenientTail).profile # EmptyProfile
    /\ \E key \in DOMAIN trigramProfile : Len(key) = 3 /\ trigramProfile[key] = FromInt(2)

(***************************************************************************)
(* C4, C7                                                                  *)
(***************************************************************************)
\* C4 (the claim as stated): normalizing an empty profile is reported to the
\* caller as an error, and no NaN or infinity is left in the profile.
C4_EmptyProfileReported ==
    (pc # "call" /\ original = EmptyProfile) =>
        /\ pc = "thrown"
        /\ \A key \in DOMAIN trigramProfile : IsFinite(trigramProfile[key])

RECURSIVE IntSum(_, _)
IntSum(f, S) ==
    IF S = {} THEN 0
    ELSE LET x == CHOOSE y \in S : TRUE IN f[x] + IntSum(f, S \ {x})

PositiveCounts(profile) ==
    /\ profile # EmptyProfile
    /\ \A key \in DOMAIN profile : FGreater(profile[key], FZero)

\* v = c / sqrt(total) up to the rounding of the two operations: within one
\* eighth, compared on the squares (v * v * total against c * c).
NearQuotient(v, c, total) ==
    /\ v.k = "fin" /\ v.e <= 0
    /\ 64 * v.m * v.m * total >= 49 * c * c * Pow2(-2 * v.e)
    /\ 64 * v.m * v.m * total <= 81 * c * c * Pow2(-2 * v.e)

\* C7: after normalizeTrigramProfile on a non-empty profile of positive
\* counts the key set is the same and every value is its count divided by
\* the square root of the sum of the counts (not of the squared counts).
C7_NormalizeDividesBySqrtOfSum ==
    (pc = "returned" /\ PositiveCounts(original)) =>
        /\ DOMAIN trigramProfile = DOMAIN original
        /\ \E total \in 1..(MaxCount * Cardinality(ProfileKeys)) :
            /\ \E c \in [DOMAIN original -> 1..MaxCount] :
                /\ \A key \in DOMAIN original : original[key] = FromInt(c[key])
                /\ total = IntSum(c, DOMAIN original)
                /\ \A key \in DOMAIN original :
                       NearQuotient(trigramProfile[key], c[key], total)
            /\ \A key \in DOMAIN original :
                   trigramProfile[key] = FDiv(original[key], FSqrt(FromInt(total)))

\* C7 witness: a normalized profile whose sum of counts differs from its sum
\* of squared counts.
C7_Witness ==
    /\ pc = "returned" /\ PositiveCounts(original)
    /\ Cardinality(DOMAIN original) >= 2
    /\ \E key \in DOMAIN original : original[key] = FromInt(3)
    /\ \E key \in DOMAIN original : original[key] = FromInt(1)

(***************************************************************************)
(* C5, C8                                                                  *)
(***************************************************************************)
Restrict(profile, keys) == [key \in keys |-> profile[key]]
CommonKeys == DOMAIN profA \cap DOMAIN profB

\* C5 (the claim as stated): for normalized profiles a and b, the keys of b
\* a strict sub-set of the keys of a, getCosineSimilarity(a, a) is at least
\* getCosineSimilarity(a, b).
C5_SelfSimilarityIsMaximum ==
    (/\ normA /\ normB /\ simAA # <<>> /\ simAB # <<>>
     /\ DOMAIN profB \subseteq DOMAIN profA /\ DOMAIN profB # DOMAIN profA)
        => ~FGreater(simAB[1], simAA[1])

\* C8: getCosineSimilarity(a, b) == getCosineSimilarity(b, a) for every pair
\* of profiles, and only the trigrams present in both contribute: the score
\* is that of the profiles cut down to their common keys, 0 if none.
C8_CosineSimilarityCommutes ==
    (simAB # <<>> /\ simBA # <<>>) =>
        /\ FEq(simAB[1], simBA[1])
        /\ simAB[1] = GetCosineSimilarity(Restrict(profA, CommonKeys),
                                          Restrict(profB, CommonKeys))
        /\ CommonKeys = {} => simAB[1] = FZero

\* C8 witness: both scores taken of two profiles with different key sets,
\* two common keys of different weights, and a key on either side only.
C8_Witness ==
    /\ simAB # <<>> /\ simBA # <<>>
    /\ Cardinality(CommonKeys) = 2
    /\ DOMAIN profA \ DOMAIN profB # {} 
    /\ Cardinality(DOMAIN profB) = 2
    /\ \E key \in CommonKeys : profA[key] # profB[key]
    /\ normA /\ ~normB
    /\ FGreater(simAB[1], FZero)

(***************************************************************************)
(* C1, C2, C3, C10                                                         *)
(***************************************************************************)
\* The raw trigram profile of the text, and each language's score against it.
TextProfile == BuildTrigramProfile(text, lenientTail).profile
Scores ==
    LET profile == TextProfile IN
    [i \in 1..Len(languages) |->
        GetCosineSimilarity(profile, languages[i].trigramProfile)]
Scorers == LET s == Scores IN {i \in 1..Len(languages) : FGreater(s[i], FZero)}

\* The earliest language among those of maximum score.
FirstBest ==
    LET s == Scores IN
    CHOOSE i \in 1..Len(languages) :
        /\ \A j \in 1..Len(languages) : ~FGreater(s[j], s[i])
        /\ \A j \in 1..(i - 1) : FGreater(s[i], s[j])

\* C1 (the claim as stated): when some language scores above 0,
\* identifyLanguage returns the code of the language of maximum score, the
\* earliest one among equals.
C1_ReturnsFirstBestCode ==
    (pc = "returned" /\ Scorers # {}) => result = languages[FirstBest].languageCode

C3_MatchIsNeverNoMatch ==
    (pc = "returned" /\ Scorers # {}) => result # NoMatch

=============================================================================
